---- MODULE Spec2Model ----
(***************************************************************************)
(* SuperAgent chat front end: the ChatInterface component (message list,   *)
(* input, busy flag, synchronous and streaming sends, clearChat) together  *)
(* with the two proxy routes /api/chat and /api/chat/stream.               *)
(*                                                                         *)
(* Text is a sequence of code points, bytes are a sequence of 0..255.      *)
(* An optional value is <<>> (absent) or <<v>>.                            *)
(***************************************************************************)
EXTENDS Integers, Sequences, FiniteSets

(***************************************************************************)
(* Bounds of the model.                                                    *)
(***************************************************************************)
\* accepted sends per behaviour
MaxSends == 2
\* largest value of the millisecond clock
MaxClock == 2

(***************************************************************************)
(* String literals of the source, as code points.                          *)
(***************************************************************************)
\* "data: "
DataPrefix == <<100, 97, 116, 97, 58, 32>>
\* "content"
KeyContent == <<99, 111, 110, 116, 101, 110, 116>>
\* "type"
KeyType == <<116, 121, 112, 101>>
\* "model"
KeyModel == <<109, 111, 100, 101, 108>>
\* "error"
KeyError == <<101, 114, 114, 111, 114>>
\* "end"
TypeEnd == <<101, 110, 100>>
\* "gemini-pro"
DefaultModel == <<103, 101, 109, 105, 110, 105, 45, 112, 114, 111>>
\* "Streaming error: "
StreamErrorPrefix == <<83, 116, 114, 101, 97, 109, 105, 110, 103, 32, 101, 114, 114, 111, 114, 58, 32>>
\* "Sorry, I encountered an error: "
SyncErrorPrefix == <<83, 111, 114, 114, 121, 44, 32, 73, 32, 101, 110, 99, 111, 117, 110, 116, 101, 114, 101, 100, 32, 97, 110, 32, 101, 114, 114, 111, 114, 58, 32>>
\* ". Please try again."
ErrorSuffix == <<46, 32, 80, 108, 101, 97, 115, 101, 32, 116, 114, 121, 32, 97, 103, 97, 105, 110, 46>>
\* "Failed to start stream"
MsgFailedToStartStream == <<70, 97, 105, 108, 101, 100, 32, 116, 111, 32, 115, 116, 97, 114, 116, 32, 115, 116, 114, 101, 97, 109>>
\* "Failed to send message"
MsgFailedToSend == <<70, 97, 105, 108, 101, 100, 32, 116, 111, 32, 115, 101, 110, 100, 32, 109, 101, 115, 115, 97, 103, 101>>
\* "Failed to process chat request"
MsgFailedToProcess == <<70, 97, 105, 108, 101, 100, 32, 116, 111, 32, 112, 114, 111, 99, 101, 115, 115, 32, 99, 104, 97, 116, 32, 114, 101, 113, 117, 101, 115, 116>>
\* "Backend responded with "
BackendRespondedWith == <<66, 97, 99, 107, 101, 110, 100, 32, 114, 101, 115, 112, 111, 110, 100, 101, 100, 32, 119, 105, 116, 104, 32>>
\* ": "
ColonSpace == <<58, 32>>

\* "\n", the separator of chunk.split("\n")
LF == 10
\* U+FFFD, what TextDecoder emits for a malformed or truncated sequence
ReplacementChar == 65533
\* U+FEFF, the byte order mark TextDecoder drops at the start of its output
ByteOrderMark == 65279

None == <<>>
Some(v) == <<v>>

(***************************************************************************)
(* String.prototype helpers.                                               *)
(***************************************************************************)
\* line.startsWith(p)
StartsWith(t, p) ==
    /\ Len(t) >= Len(p)
    /\ SubSeq(t, 1, Len(p)) = p

\* line.slice(k)
Slice(t, k) == SubSeq(t, k + 1, Len(t))

\* white space as String.prototype.trim sees it (the ASCII part)
IsWhiteSpace(c) == c \in {9, 10, 11, 12, 13, 32}

RECURSIVE TrimStart(_)
TrimStart(t) ==
    IF t # <<>> /\ IsWhiteSpace(Head(t)) THEN TrimStart(Tail(t)) ELSE t

RECURSIVE TrimEnd(_)
TrimEnd(t) ==
    IF t # <<>> /\ IsWhiteSpace(t[Len(t)])
    THEN TrimEnd(SubSeq(t, 1, Len(t) - 1))
    ELSE t

\* input.trim()
Trim(t) == TrimEnd(TrimStart(t))

\* the least element of a non-empty set of numbers
Min(S) == CHOOSE x \in S : \A y \in S : x <= y

\* the first position from i on where t holds a character of the set stop,
\* Len(t) + 1 when there is none
Find(t, i, stop) ==
    LET hits == {j \in i..Len(t) : t[j] \in stop}
    IN  IF hits = {} THEN Len(t) + 1 ELSE Min(hits)

\* chunk.split("\n"): the pieces between separators, empty pieces included
RECURSIVE SplitFrom(_, _)
SplitFrom(t, i) ==
    LET j == Find(t, i, {LF})
    IN  IF j > Len(t) THEN <<SubSeq(t, i, Len(t))>>
        ELSE <<SubSeq(t, i, j - 1)>> \o SplitFrom(t, j + 1)

SplitLines(t) == SplitFrom(t, 1)

\* Number.prototype.toString of a natural number, in decimal
RECURSIVE NumberToString(_)
NumberToString(n) ==
    IF n < 10 THEN <<48 + n>>
    ELSE Append(NumberToString(n \div 10), 48 + (n % 10))

(***************************************************************************)
(* new TextDecoder().decode(value): the UTF-8 decoder of the Encoding      *)
(* standard, run on one chunk from its initial state and flushed at the    *)
(* end of the chunk (decode is called without {stream: true}).             *)
(***************************************************************************)
\* needed: continuation bytes still expected; cp: code point so far;
\* lo..hi: the range the next continuation byte must lie in
RECURSIVE Utf8Run(_, _, _, _, _, _)
Utf8Run(b, i, needed, cp, lo, hi) ==
    IF i > Len(b)
    THEN IF needed # 0 THEN <<ReplacementChar>> ELSE <<>>
    ELSE IF needed = 0
    \* a run of bytes below 128 decodes to itself
    THEN IF b[i] <= 127
         THEN LET j == Find(b, i, 128..255)
              IN  SubSeq(b, i, j - 1) \o Utf8Run(b, j, 0, 0, 128, 191)
         ELSE IF b[i] \in 194..223
         THEN Utf8Run(b, i + 1, 1, b[i] % 32, 128, 191)
         ELSE IF b[i] \in 224..239
         THEN Utf8Run(b, i + 1, 2, b[i] % 16,
                      IF b[i] = 224 THEN 160 ELSE 128,
                      IF b[i] = 237 THEN 159 ELSE 191)
         ELSE IF b[i] \in 240..244
         THEN Utf8Run(b, i + 1, 3, b[i] % 8,
                      IF b[i] = 240 THEN 144 ELSE 128,
                      IF b[i] = 244 THEN 143 ELSE 191)
         ELSE <<ReplacementChar>> \o Utf8Run(b, i + 1, 0, 0, 128, 191)
    ELSE IF b[i] \notin lo..hi
    \* the byte is not consumed: it is decoded again from the initial state
    THEN <<ReplacementChar>> \o Utf8Run(b, i, 0, 0, 128, 191)
    ELSE IF needed = 1
    THEN <<cp * 64 + (b[i] % 64)>> \o Utf8Run(b, i + 1, 0, 0, 128, 191)
    ELSE Utf8Run(b, i + 1, needed - 1, cp * 64 + (b[i] % 64), 128, 191)

\* the decoder's output without a leading byte order mark
DropByteOrderMark(out) ==
    IF out # <<>> /\ Head(out) = ByteOrderMark THEN Tail(out) ELSE out

TextDecode(b) == DropByteOrderMark(Utf8Run(b, 1, 0, 0, 128, 191))

\* UTF-8 encoding of a text, what the backend puts on the wire
RECURSIVE Utf8Encode(_)
Utf8Encode(t) ==
    IF t = <<>> THEN <<>>
    \* a run of code points below 128 encodes to itself
    ELSE IF Head(t) < 128
    THEN LET j == Find(t, 1, {c \in {t[k] : k \in 1..Len(t)} : c >= 128})
         IN  SubSeq(t, 1, j - 1) \o Utf8Encode(SubSeq(t, j, Len(t)))
    ELSE LET c == Head(t)
             enc == IF c < 128 THEN <<c>>
                    ELSE IF c < 2048 THEN <<192 + (c \div 64), 128 + (c % 64)>>
                    ELSE IF c < 65536
                    THEN <<224 + (c \div 4096), 128 + ((c \div 64) % 64),
                           128 + (c % 64)>>
                    ELSE <<240 + (c \div 262144), 128 + ((c \div 4096) % 64),
                           128 + ((c \div 64) % 64), 128 + (c % 64)>>
         IN  enc \o Utf8Encode(Tail(t))

(***************************************************************************)
(* JSON.parse, for the grammar of the stream protocol: a scalar (string,   *)
(* integer, true, false, null) or an object whose members are scalars,     *)
(* with optional white space between tokens.  Nested containers, fractions *)
(* and \u escapes lie outside the modelled grammar and no input of the     *)
(* model uses them.  A value is [t, s, f]: its type, its text (the string, *)
(* or the digits of a number) and, for an object, its members in order.    *)
(***************************************************************************)
JsonValue(type, text) == [t |-> type, s |-> text, f |-> <<>>]
JsonObject(members) == [t |-> "object", s |-> <<>>, f |-> members]
Undefined == JsonValue("undefined", <<>>)
\* a failed parse: JSON.parse throws SyntaxError
SyntaxError == [ok |-> FALSE, v |-> Undefined, next |-> 0]
Parsed(v, next) == [ok |-> TRUE, v |-> v, next |-> next]

IsJsonSpace(c) == c \in {9, 10, 13, 32}
IsDigit(c) == c \in 48..57

RECURSIVE SkipSpace(_, _)
SkipSpace(t, i) ==
    IF i <= Len(t) /\ IsJsonSpace(t[i]) THEN SkipSpace(t, i + 1) ELSE i

\* the character an escape \c stands for, 0 when \c is no escape
Unescape(c) ==
    CASE c = 34 -> 34  [] c = 92 -> 92  [] c = 47 -> 47
      [] c = 110 -> 10 [] c = 116 -> 9  [] c = 114 -> 13
      [] c = 98 -> 8   [] c = 102 -> 12 [] OTHER -> 0

\* the body of a string literal from position i, after the opening quote
RECURSIVE StringBody(_, _, _)
StringBody(t, i, acc) ==
    IF i > Len(t) THEN SyntaxError
    ELSE IF t[i] = 34 THEN Parsed(JsonValue("string", acc), i + 1)
    ELSE IF t[i] < 32 THEN SyntaxError
    ELSE IF t[i] = 92
    THEN IF i + 1 > Len(t) \/ Unescape(t[i + 1]) = 0 THEN SyntaxError
         ELSE StringBody(t, i + 2, Append(acc, Unescape(t[i + 1])))
    \* a run of plain characters is taken as it stands
    ELSE LET j == Find(t, i, {34, 92} \cup 0..31)
         IN  StringBody(t, j, acc \o SubSeq(t, i, j - 1))

RECURSIVE DigitsEnd(_, _)
DigitsEnd(t, i) ==
    IF i <= Len(t) /\ IsDigit(t[i]) THEN DigitsEnd(t, i + 1) ELSE i

\* an integer literal: -? (0 | [1-9][0-9]*), its digits from d to e - 1
NumberAt(t, i, d, e) ==
    IF e = d \/ (t[d] = 48 /\ e > d + 1) THEN SyntaxError
    ELSE Parsed(JsonValue("number", SubSeq(t, i, e - 1)), e)

DigitsAt(t, i, d) == NumberAt(t, i, d, DigitsEnd(t, d))

ParseNumber(t, i) == DigitsAt(t, i, IF t[i] = 45 THEN i + 1 ELSE i)

ParseWord(t, i, word, type) ==
    IF i + Len(word) - 1 <= Len(t) /\ SubSeq(t, i, i + Len(word) - 1) = word
    THEN Parsed(JsonValue(type, <<>>), i + Len(word))
    ELSE SyntaxError

ParseScalar(t, i) ==
    IF i > Len(t) THEN SyntaxError
    ELSE IF t[i] = 34 THEN StringBody(t, i + 1, <<>>)
    ELSE IF t[i] = 45 \/ IsDigit(t[i]) THEN ParseNumber(t, i)
    ELSE IF t[i] = 116 THEN ParseWord(t, i, <<116, 114, 117, 101>>, "true")
    ELSE IF t[i] = 102 THEN ParseWord(t, i, <<102, 97, 108, 115, 101>>, "false")
    ELSE IF t[i] = 110 THEN ParseWord(t, i, <<110, 117, 108, 108>>, "null")
    ELSE SyntaxError

\* the members of an object from position i (at a key), acc those read so far
RECURSIVE ParseMembers(_, _, _)

\* after the member k: v, with e the position of the next token
AfterMember(t, e, all) ==
    IF e > Len(t) THEN SyntaxError
    ELSE IF t[e] = 125 THEN Parsed(JsonObject(all), e + 1)
    ELSE IF t[e] = 44 THEN ParseMembers(t, SkipSpace(t, e + 1), all)
    ELSE SyntaxError

\* after the key k and its colon, with v the parse of the value
AfterValue(t, k, v, acc) ==
    IF ~v.ok THEN SyntaxError
    ELSE AfterMember(t, SkipSpace(t, v.next), Append(acc, [k |-> k.v.s, v |-> v.v]))

\* after the key k, with c the position of the next token
AfterKey(t, k, c, acc) ==
    IF c > Len(t) \/ t[c] # 58 THEN SyntaxError
    ELSE AfterValue(t, k, ParseScalar(t, SkipSpace(t, c + 1)), acc)

\* with k the parse of the key
AtKey(t, k, acc) ==
    IF ~k.ok THEN SyntaxError ELSE AfterKey(t, k, SkipSpace(t, k.next), acc)

ParseMembers(t, i, acc) ==
    IF i > Len(t) \/ t[i] # 34 THEN SyntaxError
    ELSE AtKey(t, StringBody(t, i + 1, <<>>), acc)

\* an object from position i (at its brace), with m the position of the
\* token after the brace
AtObject(t, m) ==
    IF m <= Len(t) /\ t[m] = 125 THEN Parsed(JsonObject(<<>>), m + 1)
    ELSE ParseMembers(t, m, <<>>)

ParseValue(t, i) ==
    IF i <= Len(t) /\ t[i] = 123 THEN AtObject(t, SkipSpace(t, i + 1))
    ELSE ParseScalar(t, i)

\* r is the parse of a value: the rest of the text must be white space
WholeText(t, r) ==
    IF r.ok /\ SkipSpace(t, r.next) = Len(t) + 1 THEN r ELSE SyntaxError

\* JSON.parse(text): the whole text must be one value
JsonParse(t) == WholeText(t, ParseValue(t, SkipSpace(t, 1)))

\* data.key of a parsed value that is not null: the last member named key
\* of an object, undefined otherwise
RECURSIVE Lookup(_, _, _)
Lookup(members, key, i) ==
    IF i = 0 THEN Undefined
    ELSE IF members[i].k = key THEN members[i].v
    ELSE Lookup(members, key, i - 1)

Get(data, key) == Lookup(data.f, key, Len(data.f))

\* ToBoolean(v)
RECURSIVE AllZero(_)
AllZero(digits) ==
    digits = <<>> \/ (Head(digits) \in {45, 48} /\ AllZero(Tail(digits)))

Truthy(v) ==
    CASE v.t = "string" -> v.s # <<>>
      [] v.t = "number" -> ~AllZero(v.s)
      [] v.t \in {"true", "object"} -> TRUE
      [] OTHER -> FALSE

(***************************************************************************)
(* What the environment supplies: the texts the user types, the answers    *)
(* of the backend behind the proxy routes, and the failures of the         *)
(* transport.                                                              *)
(***************************************************************************)
\* " "
InputBlank == <<32>>
\* "Calculate 24 + 7 * 4", the text of one of the suggestion buttons
Suggestion == <<67, 97, 108, 99, 117, 108, 97, 116, 101, 32, 50, 52, 32, 43, 32, 55, 32, 42, 32, 52>>
\* " Hi ", a greeting typed with blanks around it
InputTyped == <<32, 72, 105, 32>>
\* what onChange can put into the input field
Inputs == {InputBlank, InputTyped}
\* what a suggestion button can put there
Suggestions == {Suggestion}

\* "response"
KeyResponse == <<114, 101, 115, 112, 111, 110, 115, 101>>
\* "details"
KeyDetails == <<100, 101, 116, 97, 105, 108, 115>>
\* "deepseek-chat"
ModelName == <<100, 101, 101, 112, 115, 101, 101, 107, 45, 99, 104, 97, 116>>
\* "52"
ReplyText == <<53, 50>>
\* "Service Unavailable"
TextUnavailable == <<83, 101, 114, 118, 105, 99, 101, 32, 85, 110, 97, 118, 97, 105, 108, 97, 98, 108, 101>>
\* "Internal Server Error"
TextInternal == <<73, 110, 116, 101, 114, 110, 97, 108, 32, 83, 101, 114, 118, 101, 114, 32, 69, 114, 114, 111, 114>>
\* "fetch failed", the message of the TypeError of a server-side fetch
MsgFetchFailed == <<102, 101, 116, 99, 104, 32, 102, 97, 105, 108, 101, 100>>
\* "Failed to fetch", the message of the TypeError of a browser fetch
MsgFailedToFetch == <<70, 97, 105, 108, 101, 100, 32, 116, 111, 32, 102, 101, 116, 99, 104>>
\* "network error", the message of a rejected reader.read()
MsgNetworkError == <<110, 101, 116, 119, 111, 114, 107, 32, 101, 114, 114, 111, 114>>

Member(key, text) == [k |-> key, v |-> JsonValue("string", text)]

\* the backend's answers to POST /chat
ChatBackend ==
    { [kind |-> "ok", status |-> 200, text |-> <<>>,
       json |-> JsonObject(<<Member(KeyResponse, ReplyText), Member(KeyModel, ModelName)>>)],
      [kind |-> "ok", status |-> 200, text |-> <<>>,
       json |-> JsonObject(<<Member(KeyResponse, ReplyText)>>)],
      [kind |-> "status", status |-> 503, text |-> TextUnavailable, json |-> Undefined],
      [kind |-> "status", status |-> 500, text |-> TextInternal, json |-> Undefined],
      [kind |-> "unreachable", status |-> 0, text |-> MsgFetchFailed, json |-> Undefined] }

\* the payloads of the stream protocol
\* {"content":"Hel"}
JsonHel == <<123, 34, 99, 111, 110, 116, 101, 110, 116, 34, 58, 34, 72, 101, 108, 34, 125>>
\* {"content":"Hello"}
JsonHello == <<123, 34, 99, 111, 110, 116, 101, 110, 116, 34, 58, 34, 72, 101, 108, 108, 111, 34, 125>>
\* {"type":"end"}
JsonEnd == <<123, 34, 116, 121, 112, 101, 34, 58, 34, 101, 110, 100, 34, 125>>
\* {"content":""}
JsonEmpty == <<123, 34, 99, 111, 110, 116, 101, 110, 116, 34, 58, 34, 34, 125>>
\* {"content":"Hel   (the closing quote and brace are missing)
JsonBad == <<123, 34, 99, 111, 110, 116, 101, 110, 116, 34, 58, 34, 72, 101, 108>>
\* {"content":"Hel","model":"deepseek-chat"}
JsonModel == <<123, 34, 99, 111, 110, 116, 101, 110, 116, 34, 58, 34, 72, 101, 108, 34, 44, 34, 109, 111, 100, 101, 108, 34, 58, 34, 100, 101, 101, 112, 115, 101, 101, 107, 45, 99, 104, 97, 116, 34, 125>>
\* {"content":"Hé"} with the e-acute as itself, two bytes on the wire
JsonAccent == <<123, 34, 99, 111, 110, 116, 101, 110, 116, 34, 58, 34, 72, 233, 34, 125>>
\* ": keep-alive", a comment line
TextComment == <<58, 32, 107, 101, 101, 112, 45, 97, 108, 105, 118, 101>>
\* "data:" without the space
TextNoSpace == <<100, 97, 116, 97, 58>>

\* a line as the backend writes it
WireLine(text) == Utf8Encode(text \o <<LF>>)
\* a frame: data: <json>\n
Frame(json) == WireLine(DataPrefix \o json)
\* the bytes b delivered as two chunks, the first of k bytes
Cut(b, k) == <<SubSeq(b, 1, k), SubSeq(b, k + 1, Len(b))>>
\* the number of bytes of a frame up to the middle of the e-acute of JsonAccent
AccentCut == Len(DataPrefix) + Len(JsonAccent) - 2
\* the number of bytes of a frame up to the middle of its key
KeyCut == Len(DataPrefix) + 5

\* the chunk sequences a stream body can arrive as
Scripts ==
    { <<>>,
      <<Frame(JsonHel), Frame(JsonHello), Frame(JsonEnd)>>,
      <<Frame(JsonHel) \o Frame(JsonEnd) \o Frame(JsonHello)>>,
      <<Frame(JsonHel) \o Frame(JsonEnd), Frame(JsonHello)>>,
      <<Frame(JsonBad) \o Frame(JsonHel), Frame(JsonHello)>>,
      <<WireLine(TextComment) \o WireLine(TextNoSpace \o JsonHello) \o WireLine(<<>>)
          \o Frame(JsonModel)>>,
      <<Frame(JsonHello) \o Frame(JsonEmpty)>>,
      <<Frame(JsonAccent)>>,
      Cut(Frame(JsonAccent), AccentCut),
      Cut(Frame(JsonHel), KeyCut) }

\* the backend's answers to POST /chat/stream; body is None for a response
\* without a body
StreamBackend ==
    { [kind |-> "ok", status |-> 200, text |-> <<>>, body |-> Some(s)] : s \in Scripts }
    \cup
    { [kind |-> "ok", status |-> 200, text |-> <<>>, body |-> None],
      [kind |-> "status", status |-> 503, text |-> TextUnavailable, body |-> None],
      [kind |-> "unreachable", status |-> 0, text |-> MsgFetchFailed, body |-> None] }

(***************************************************************************)
(* The proxy routes.                                                       *)
(***************************************************************************)
\* error.message in the catch block of a route
RouteErrorMessage(b) ==
    IF b.kind = "status"
    THEN BackendRespondedWith \o NumberToString(b.status) \o ColonSpace \o b.text
    ELSE b.text

\* the {error, details} body of a route's catch block
ErrorEnvelope(error, details) ==
    JsonObject(<<Member(KeyError, error), Member(KeyDetails, details)>>)

\* a route that passes the backend's status on with its envelope
ProxyChatSameStatus(b) ==
    IF b.kind = "ok"
    THEN [ok |-> TRUE, status |-> 200, json |-> b.json]
    ELSE [ok |-> FALSE, status |-> b.status,
          json |-> ErrorEnvelope(MsgFailedToProcess, RouteErrorMessage(b))]

\* POST /api/chat
ProxyChat(b) ==
    IF b.kind = "ok"
    THEN [ok |-> TRUE, status |-> 200, json |-> b.json]
    ELSE [ok |-> FALSE, status |-> 500,
          json |-> ErrorEnvelope(MsgFailedToProcess, RouteErrorMessage(b))]

\* POST /api/chat/stream
ProxyStream(b) ==
    IF b.kind = "ok"
    THEN [ok |-> TRUE, status |-> 200, body |-> b.body, json |-> Undefined]
    ELSE [ok |-> FALSE, status |-> 500, body |-> None,
          json |-> ErrorEnvelope(MsgFailedToStartStream, RouteErrorMessage(b))]

(***************************************************************************)
(* The ChatInterface component.                                            *)
(***************************************************************************)
VARIABLES
    messages,            \* useState<Message[]>
    input,               \* useState("")
    isLoading,           \* useState(false)
    useStreaming,        \* useState(true)
    now,                 \* Date.now(), a non-decreasing millisecond clock
    pc,                  \* where the accepted send is suspended
    assistantMessage,    \* local of sendMessageStream
    assistantMessageId,  \* local of sendMessageStream
    wire,                \* the chunks reader.read() has still to yield
    lines,               \* the lines the for loop has still to visit
    \* history, read by no action
    sends,               \* sends accepted so far
    completed,           \* sends that reached their finally block
    submitted,           \* the sends accepted since the last clearChat
    rejected,            \* the last step was a sendMessage that returned early
    exit,                \* how the last completed send left its function
    received,            \* the bytes read in this turn
    decoded,             \* the text decode() returned in this turn, all chunks
    endSeen,             \* this turn's loop has met a frame of type "end"
    fetched              \* the backend's answer and the route's answer to the
                         \* last fetch that settled on a response, dropped
                         \* with the reader when a read loop ends

vars == <<messages, input, isLoading, useStreaming, now, pc, assistantMessage,
          assistantMessageId, wire, lines, sends, completed, submitted,
          rejected, exit, received, decoded, endSeen, fetched>>

\* the locals and the reader of a streaming send
streamVars == <<assistantMessage, assistantMessageId, wire, lines, received,
                decoded, endSeen>>

\* input.trim(), tabulated over the texts the input field can hold
Trimmed == [text \in Inputs \cup Suggestions \cup {<<>>} |-> Trim(text)]

\* A Message.  Ids are Date.now() or Date.now() + 1 rendered in decimal;
\* rendering is one-to-one and ids are only compared, so an id is kept as its
\* number.  The timestamp field is written and then only rendered: it is
\* left out.
UserMessage(text, time) ==
    [id |-> time, content |-> Trimmed[text], sender |-> "user", model |-> None]

AssistantMessage(id, content, model) ==
    [id |-> id, content |-> content, sender |-> "assistant", model |-> model]

\* the message of a catch block
ErrorMessage(prefix, message, time) ==
    AssistantMessage(time + 1, prefix \o message \o ErrorSuffix, None)

\* the guard without its isLoading disjunct
SendGuardNotBusy(text, loading) == Trimmed[text] # <<>>

\* if (!input.trim() || isLoading) return;  TRUE when the send goes on
SendGuard(text, loading) == Trimmed[text] # <<>> /\ ~loading

\* newMessages.findIndex(m => m.id === id), counted from 1; 0 for -1
FindIndex(msgs, id) ==
    LET hits == {i \in 1..Len(msgs) : msgs[i].id = id}
    IN  IF hits = {} THEN 0 ELSE Min(hits)

\* the updater of the real-time update: replace the turn's message or push it
Upsert(prev, messageObj) ==
    LET existingIndex == FindIndex(prev, messageObj.id)
    IN  IF existingIndex >= 1
        THEN [prev EXCEPT ![existingIndex] = messageObj]
        ELSE Append(prev, messageObj)

\* assistantMessage += data.content, the update of a delta protocol
AppendContent(current, content) == current \o content

\* assistantMessage = data.content
NextContent(current, content) == content

\* what the try block does with the parsed payload:
\*   "parseError"  the try block threw (JSON.parse, or data is null)
\*   "content"     data.content is truthy
\*   "end"         data.type === "end"
\*   "other"       parsed, neither
NoFrame(kind) == [kind |-> kind, content |-> <<>>, model |-> <<>>]

\* a catch block that leaves the for loop
CatchBreaks == NoFrame("end")

\* catch (e) { console.error(...) }: the iteration is over, the loop goes on
CatchParse == NoFrame("parseError")

FrameOutcome(data) ==
    IF ~data.ok \/ data.v.t = "null" THEN CatchParse
    ELSE IF Truthy(Get(data.v, KeyContent))
    THEN [kind |-> "content",
          content |-> Get(data.v, KeyContent).s,
          model |-> IF Truthy(Get(data.v, KeyModel))
                    THEN Get(data.v, KeyModel).s
                    ELSE DefaultModel]
    ELSE IF Get(data.v, KeyType) = JsonValue("string", TypeEnd)
    THEN NoFrame("end")
    ELSE NoFrame("other")

\* a loop that takes data: without the space for the prefix as well
LineOutcomeLoose(line) ==
    IF ~StartsWith(line, TextNoSpace) THEN NoFrame("ignored")
    ELSE FrameOutcome(JsonParse(Slice(line, 5)))

\* what one iteration of the for loop does with its line; "ignored" when
\* the line has no data: prefix
LineOutcome(line) ==
    IF ~StartsWith(line, DataPrefix) THEN NoFrame("ignored")
    ELSE FrameOutcome(JsonParse(Slice(line, 6)))

(***************************************************************************)
(* The pure functions above, tabulated once over the values the            *)
(* environment can supply; the actions read the tables.                    *)
(***************************************************************************)
Range(f) == {f[i] : i \in DOMAIN f}

\* every chunk a reader can yield
Chunks == UNION {Range(s) : s \in Scripts}
\* new TextDecoder().decode(value)
Decoded == [value \in Chunks |-> TextDecode(value)]
\* chunk.split("\n") of the decoded chunk
LinesOf == [value \in Chunks |-> SplitLines(TextDecode(value))]
\* every line a for loop can visit
Lines == UNION {Range(LinesOf[value]) : value \in Chunks}
\* the loop body's verdict on a line
Outcome == [line \in Lines |-> LineOutcome(line)]
\* the answers of the two routes
ChatRoute == [b \in ChatBackend |-> ProxyChat(b)]
StreamRoute == [b \in StreamBackend |-> ProxyStream(b)]

Init ==
    /\ messages = <<>>
    /\ input = <<>>
    /\ isLoading = FALSE
    /\ useStreaming = TRUE
    /\ now = 0
    /\ pc = "idle"
    /\ assistantMessage = <<>>
    /\ assistantMessageId = 0
    /\ wire = <<>>
    /\ lines = <<>>
    /\ sends = 0
    /\ completed = 0
    /\ submitted = <<>>
    /\ rejected = FALSE
    /\ exit = "none"
    /\ received = <<>>
    /\ decoded = <<>>
    /\ endSeen = FALSE
    /\ fetched = None

\* The body of the for loop runs to completion: while pc = "lines" no event
\* handler runs and the clock is read as standing still.
Interruptible == pc # "lines"

\* a millisecond passes
Tick ==
    /\ Interruptible
    /\ now < MaxClock
    /\ now' = now + 1
    /\ rejected' = FALSE
    /\ UNCHANGED <<messages, input, isLoading, useStreaming, pc, streamVars,
                   sends, completed, submitted, exit, fetched>>

\* onChange of the input field, which is disabled while isLoading
SetInput(text) ==
    /\ Interruptible
    /\ ~isLoading
    /\ input' = text
    /\ rejected' = FALSE
    /\ UNCHANGED <<messages, isLoading, useStreaming, now, pc, streamVars,
                   sends, completed, submitted, exit, fetched>>

\* onClick of a suggestion button, rendered while the conversation is empty
ClickSuggestion(text) ==
    /\ Interruptible
    /\ messages = <<>>
    /\ input' = text
    /\ rejected' = FALSE
    /\ UNCHANGED <<messages, isLoading, useStreaming, now, pc, streamVars,
                   sends, completed, submitted, exit, fetched>>

\* onChange of the Streaming checkbox
ToggleStreaming ==
    /\ Interruptible
    /\ useStreaming' = ~useStreaming
    /\ rejected' = FALSE
    /\ UNCHANGED <<messages, input, isLoading, now, pc, streamVars,
                   sends, completed, submitted, exit, fetched>>

\* a clear that takes back the last message only
ClearChatLastOnly ==
    /\ Interruptible
    /\ messages' = SubSeq(messages, 1, Len(messages) - 1)
    /\ submitted' = <<>>
    /\ rejected' = FALSE
    /\ UNCHANGED <<input, isLoading, useStreaming, now, pc, streamVars,
                   sends, completed, exit, fetched>>

\* clearChat
ClearChat ==
    /\ Interruptible
    /\ messages' = <<>>
    /\ submitted' = <<>>
    /\ rejected' = FALSE
    /\ UNCHANGED <<input, isLoading, useStreaming, now, pc, streamVars,
                   sends, completed, exit, fetched>>

\* sendMessage, up to its first await
SendMessage ==
    /\ Interruptible
    /\ IF ~SendGuard(input, isLoading)
       THEN /\ rejected' = TRUE
            /\ UNCHANGED <<messages, input, isLoading, useStreaming, now, pc,
                           streamVars, sends, completed, submitted, exit,
                           fetched>>
       ELSE /\ sends < MaxSends
            /\ messages' = Append(messages, UserMessage(input, now))
            /\ input' = <<>>
            /\ isLoading' = TRUE
            /\ pc' = IF useStreaming THEN "streamFetch" ELSE "syncFetch"
            /\ sends' = sends + 1
            /\ submitted' = Append(submitted,
                                   [content |-> Trimmed[input], streaming |-> useStreaming])
            /\ rejected' = FALSE
            /\ exit' = "none"
            /\ assistantMessage' = <<>>
            /\ assistantMessageId' = 0
            /\ wire' = <<>>
            /\ lines' = <<>>
            /\ received' = <<>>
            /\ decoded' = <<>>
            /\ endSeen' = FALSE
            /\ fetched' = None
            /\ UNCHANGED <<useStreaming, now, completed>>

\* a send whose setIsLoading(false) is not reached
FinallyStaysBusy(how) ==
    /\ isLoading' = isLoading
    /\ exit' = how
    /\ pc' = "idle"
    /\ completed' = completed + 1
    /\ rejected' = FALSE
    /\ assistantMessage' = <<>>
    /\ assistantMessageId' = 0
    /\ wire' = <<>>
    /\ lines' = <<>>
    /\ received' = <<>>
    /\ decoded' = <<>>
    /\ endSeen' = FALSE

\* the finally block of either send; the function returns, its locals and
\* its reader are gone
Finally(how) ==
    /\ isLoading' = FALSE
    /\ exit' = how
    /\ pc' = "idle"
    /\ completed' = completed + 1
    /\ rejected' = FALSE
    /\ assistantMessage' = <<>>
    /\ assistantMessageId' = 0
    /\ wire' = <<>>
    /\ lines' = <<>>
    /\ received' = <<>>
    /\ decoded' = <<>>
    /\ endSeen' = FALSE

\* what a fetch settled on: the backend's answer b and the route's answer
Settled(b, response) == Some([backend |-> b, response |-> response])

\* a success path that runs into the catch block after its append
SyncResponseTwice(b) ==
    /\ pc = "syncFetch"
    /\ messages' =
         Append(Append(messages,
                       AssistantMessage(now + 1, Get(ChatRoute[b].json, KeyResponse).s, None)),
                ErrorMessage(SyncErrorPrefix, MsgFailedToSend, now))
    /\ Finally(IF ChatRoute[b].ok THEN "answered" ELSE "syncStatus")
    /\ fetched' = Settled(b, ChatRoute[b])
    /\ UNCHANGED <<input, useStreaming, now, sends, submitted>>

\* sendMessageSync after fetch("/api/chat") settled on the proxy's answer to
\* the backend outcome b
SyncResponse(b) ==
    LET response == ChatRoute[b]
        data == response.json
        thrown == IF Truthy(Get(data, KeyError)) THEN Get(data, KeyError).s
                  ELSE MsgFailedToSend
        model == IF Get(data, KeyModel).t = "undefined" THEN None
                 ELSE Some(Get(data, KeyModel).s)
    IN  /\ pc = "syncFetch"
        /\ messages' =
             Append(messages,
                    IF response.ok
                    THEN AssistantMessage(now + 1, Get(data, KeyResponse).s, model)
                    ELSE ErrorMessage(SyncErrorPrefix, thrown, now))
        /\ Finally(IF response.ok THEN "answered" ELSE "syncStatus")
        /\ fetched' = Settled(b, response)
        /\ UNCHANGED <<input, useStreaming, now, sends, submitted>>

\* a catch block that only logs
SyncFetchFailsSilently ==
    /\ pc = "syncFetch"
    /\ Finally("syncFetch")
    /\ UNCHANGED <<messages, input, useStreaming, now, sends, submitted, fetched>>

\* sendMessageSync when fetch("/api/chat") rejects
SyncFetchFails ==
    /\ pc = "syncFetch"
    /\ messages' = Append(messages, ErrorMessage(SyncErrorPrefix, MsgFailedToFetch, now))
    /\ Finally("syncFetch")
    /\ UNCHANGED <<input, useStreaming, now, sends, submitted, fetched>>

\* the catch block of sendMessageStream
StreamCatch(message, how) ==
    /\ messages' = Append(messages, ErrorMessage(StreamErrorPrefix, message, now))
    /\ Finally(how)

\* sendMessageStream after fetch("/api/chat/stream") settled on the proxy's
\* answer to the backend outcome b
StreamResponse(b) ==
    LET response == StreamRoute[b]
    IN  /\ pc = "streamFetch"
        /\ IF ~response.ok
           THEN StreamCatch(MsgFailedToStartStream, "streamStatus")
           ELSE IF response.body = None
           \* response.body?.getReader() is undefined: the loop is skipped
           THEN /\ Finally("noBody")
                /\ UNCHANGED messages
           ELSE /\ pc' = "read"
                /\ assistantMessageId' = now + 1
                /\ wire' = response.body[1]
                /\ rejected' = FALSE
                /\ UNCHANGED <<messages, isLoading, completed, exit, assistantMessage,
                               lines, received, decoded, endSeen>>
        /\ fetched' = Settled(b, response)
        /\ UNCHANGED <<input, useStreaming, now, sends, submitted>>

\* sendMessageStream when fetch("/api/chat/stream") rejects
StreamFetchFails ==
    /\ pc = "streamFetch"
    /\ StreamCatch(MsgFailedToFetch, "streamFetch")
    /\ UNCHANGED <<input, useStreaming, now, sends, submitted, fetched>>

\* reader.read() yields a chunk: decode it and split it
ReadChunk ==
    /\ pc = "read"
    /\ wire # <<>>
    /\ LET value == Head(wire)
           chunk == Decoded[value]
       IN  /\ lines' = LinesOf[value]
           /\ received' = received \o value
           /\ decoded' = decoded \o chunk
    /\ wire' = Tail(wire)
    /\ pc' = "lines"
    /\ rejected' = FALSE
    /\ UNCHANGED <<messages, input, isLoading, useStreaming, now,
                   assistantMessage, assistantMessageId, endSeen, sends,
                   completed, submitted, exit, fetched>>

\* reader.read() reports done
ReadDone ==
    /\ pc = "read"
    /\ wire = <<>>
    /\ Finally("done")
    /\ fetched' = None
    /\ UNCHANGED <<messages, input, useStreaming, now, sends, submitted>>

\* reader.read() rejects: the transport failed
ReadFails ==
    /\ pc = "read"
    /\ StreamCatch(MsgNetworkError, "readFailed")
    /\ fetched' = None
    /\ UNCHANGED <<input, useStreaming, now, sends, submitted>>

\* a loop without the break
LinesAfterNoBreak(o) == Tail(lines)

\* the lines left to the loop after an iteration with outcome o: none
\* after the break
LinesAfter(o) == IF o.kind = "end" THEN <<>> ELSE Tail(lines)

\* one iteration of for (const line of lines), o its outcome
Iteration(o) ==
    /\ IF o.kind = "content"
       THEN /\ assistantMessage' = NextContent(assistantMessage, o.content)
            /\ messages' =
                 Upsert(messages,
                        AssistantMessage(assistantMessageId,
                                         NextContent(assistantMessage, o.content),
                                         Some(o.model)))
       ELSE UNCHANGED <<assistantMessage, messages>>
    /\ endSeen' = (endSeen \/ o.kind = "end")
    /\ lines' = LinesAfter(o)
    /\ pc' = IF LinesAfter(o) = <<>> THEN "read" ELSE "lines"

ProcessLine ==
    /\ pc = "lines"
    /\ Iteration(Outcome[Head(lines)])
    /\ rejected' = FALSE
    /\ UNCHANGED <<input, isLoading, useStreaming, now, assistantMessageId, wire,
                   received, decoded, sends, completed, submitted, exit, fetched>>

Next ==
    \/ Tick
    \/ \E text \in Inputs : SetInput(text)
    \/ \E text \in Suggestions : ClickSuggestion(text)
    \/ ToggleStreaming
    \/ ClearChat
    \/ SendMessage
    \/ \E b \in ChatBackend : SyncResponse(b)
    \/ SyncFetchFails
    \/ \E b \in StreamBackend : StreamResponse(b)
    \/ StreamFetchFails
    \/ ReadChunk
    \/ ReadDone
    \/ ReadFails
    \/ ProcessLine

Spec == Init /\ [][Next]_vars

\* the steps of the send in flight: a fetch settles, reader.read() settles,
\* the for loop runs an iteration
Continuation ==
    \/ \E b \in ChatBackend : SyncResponse(b)
    \/ SyncFetchFails
    \/ \E b \in StreamBackend : StreamResponse(b)
    \/ StreamFetchFails
    \/ ReadChunk
    \/ ReadDone
    \/ ReadFails
    \/ ProcessLine

\* Every fetch and every reader.read() settles, and the event loop then
\* runs the continuation that awaits it.
LiveSpec == Spec /\ WF_vars(Continuation)

(***************************************************************************)
(* Properties of the streaming decoder.                                    *)
(***************************************************************************)
\* "Hel"
TextHel == <<72, 101, 108>>
\* "Hello"
TextHello == <<72, 101, 108, 108, 111>>

\* the positions of the messages that carry id
Slots(msgs, id) == {i \in 1..Len(msgs) : msgs[i].id = id}

\* the content field of a parsed payload: Some(text) when the payload is an
\* object whose content is a string
FieldOf(data) ==
    IF data.ok /\ data.v.t = "object" /\ Get(data.v, KeyContent).t = "string"
    THEN Some(Get(data.v, KeyContent).s)
    ELSE None

\* the content field of the frame on each line, None for a line without one
ContentField ==
    [line \in Lines |->
        IF StartsWith(line, DataPrefix) THEN FieldOf(JsonParse(Slice(line, 6)))
        ELSE None]

\* the data: lines whose payload JSON.parse rejects
Unparsable ==
    {line \in Lines : StartsWith(line, DataPrefix) /\ ~JsonParse(Slice(line, 6)).ok}

\* after the step, the turn's message and the decoder's local hold content
Shows(content) ==
    /\ assistantMessage' = content
    /\ Slots(messages', assistantMessageId) # {}
    /\ messages'[FindIndex(messages', assistantMessageId)].sender = "assistant"
    /\ messages'[FindIndex(messages', assistantMessageId)].content = content

\* C1 as claimed: processing a parsed data: frame that carries a content
\* field of any text value leaves the turn's assistant message with exactly
\* that value.
C1AnyContentReplaces ==
    [][(pc = "lines" /\ ContentField[Head(lines)] # None)
        => Shows(ContentField[Head(lines)][1])]_vars

\* C1, amended: processing a parsed data: frame that carries a non-empty
\* content text leaves the turn's assistant message, and the decoder's
\* accumulated content, equal to exactly that text: no concatenation with
\* earlier frames, no earlier value.
C1Replacement ==
    [][(pc = "lines" /\ ContentField[Head(lines)] \notin {None, Some(<<>>)})
        => Shows(ContentField[Head(lines)][1])]_vars

\* the frames Hel and Hello were processed in this order and the turn's
\* message shows Hello
C1Witness ==
    /\ pc = "read"
    /\ received = Frame(JsonHel) \o Frame(JsonHello)
    /\ assistantMessage = TextHello
    /\ \E i \in Slots(messages, assistantMessageId) : messages[i].content = TextHello

\* C2: once the chunks read so far are consumed, the text decoded from them
\* equals the text decoded from their concatenation, also when a chunk
\* boundary falls inside a multi-byte character; no replacement character
\* appears that the concatenation does not hold.
C2SplitCharacter == pc = "read" => decoded = TextDecode(received)

\* C3: the iteration over a data: line with unparsable JSON changes neither
\* the message list nor the accumulated content, appends no error message
\* and does not end the send; the loop goes on with the next line of the
\* chunk, and with the next chunk after the last line, exactly as if the
\* line were absent.
C3SkipsBadLine ==
    [][(pc = "lines" /\ Head(lines) \in Unparsable)
        => /\ messages' = messages
           /\ assistantMessage' = assistantMessage
           /\ lines' = Tail(lines)
           /\ pc' = IF Tail(lines) = <<>> THEN "read" ELSE "lines"
           /\ UNCHANGED <<wire, isLoading, assistantMessageId, endSeen,
                          completed, exit>>]_vars

\* an unparsable line was skipped and the line after it was published
C3Witness ==
    /\ pc = "read"
    /\ received = Frame(JsonBad) \o Frame(JsonHel)
    /\ assistantMessage = TextHel
    /\ \E i \in Slots(messages, assistantMessageId) : messages[i].content = TextHel

\* C4: in a run without clearChat, once the first content frame of a
\* streaming send is processed, exactly one message carries the turn's
\* assistant id, it keeps its index, and a further content frame changes
\* neither the length of the list nor any other message.
C4OneSlot ==
    [][(pc \in {"read", "lines"} /\ assistantMessage # <<>> /\ Len(submitted') = sends')
        => /\ Cardinality(Slots(messages', assistantMessageId)) = 1
           /\ FindIndex(messages', assistantMessageId) = FindIndex(messages, assistantMessageId)
           /\ pc = "lines" =>
                /\ Len(messages') = Len(messages)
                /\ \A i \in 1..Len(messages) :
                     i # FindIndex(messages, assistantMessageId) => messages'[i] = messages[i]]_vars

(***************************************************************************)
(* Properties of sendMessage.                                              *)
(***************************************************************************)
\* C5: at most one send is in flight, isLoading is true exactly while one
\* is; a send is accepted only when isLoading is false and the trimmed input
\* is not empty; a sendMessage that returns early changes neither messages,
\* input, isLoading nor any part of the pending send, and issues no request.
C5SingleFlight ==
    [][/\ sends - completed \in {0, 1}
       /\ isLoading <=> (sends - completed = 1)
       /\ sends' # sends =>
            /\ ~isLoading
            /\ Trimmed[input] # <<>>
            /\ sends' - completed' = 1
       /\ rejected' =>
            /\ isLoading \/ Trimmed[input] = <<>>
            /\ UNCHANGED <<messages, input, isLoading, useStreaming, pc,
                           assistantMessage, assistantMessageId, wire, lines,
                           sends, completed>>]_vars

\* sendMessage was invoked while a send is in flight and returned early
C5Witness == rejected /\ isLoading /\ sends - completed = 1

(***************************************************************************)
(* Properties of the ends of a streaming send.                             *)
(***************************************************************************)
\* C6: once a frame of type "end" has been processed the send reads no
\* further chunk and publishes no further update for the turn.
C6EndTerminates ==
    [][endSeen => /\ ~(pc = "read" /\ pc' = "lines")
                  /\ pc = "lines" => messages' = messages]_vars

\* the step is the catch block running after reader.read() rejected
ReadFailed == pc = "read" /\ pc' = "idle" /\ exit' = "readFailed"

\* the step is the catch block running before any chunk was read
OpenFailed == pc = "streamFetch" /\ pc' = "idle" /\ exit' \in {"streamStatus", "streamFetch"}

\* message m is a synthetic error message of a streaming send
IsStreamError(m) == m.sender = "assistant" /\ StartsWith(m.content, StreamErrorPrefix)

\* C7: when reader.read() rejects after at least one content frame was
\* published, exactly one error message is appended after the existing
\* messages, and the partial assistant message is still in the list with
\* the content of the last published frame.
C7PartialKept ==
    [][(ReadFailed /\ assistantMessage # <<>>)
        => /\ Len(messages') = Len(messages) + 1
           /\ SubSeq(messages', 1, Len(messages)) = messages
           /\ IsStreamError(messages'[Len(messages')])
           /\ \E i \in 1..Len(messages) :
                /\ messages'[i].id = assistantMessageId
                /\ messages'[i].sender = "assistant"
                /\ messages'[i].content = assistantMessage]_vars

\* C8: when the stream cannot be opened (non-success status, or the fetch
\* rejects) nothing is read or decoded, and exactly one error message is
\* appended, directly after the user's message of the send; the send
\* creates no other assistant message.
C8OpenFailure ==
    [][OpenFailed
        => /\ received = <<>> /\ decoded = <<>> /\ assistantMessage = <<>>
           /\ Len(messages') = Len(messages) + 1
           /\ SubSeq(messages', 1, Len(messages)) = messages
           /\ IsStreamError(messages'[Len(messages')])
           /\ messages # <<>>
           /\ messages[Len(messages)].sender = "user"]_vars

(***************************************************************************)
(* Properties of whole conversations.                                      *)
(***************************************************************************)
IsUser(m) == m.sender = "user"

\* user and assistant messages take turns, a user message first
Alternates(msgs) ==
    \A i \in 1..Len(msgs) :
        msgs[i].sender = IF i % 2 = 1 THEN "user" ELSE "assistant"

\* the user messages are those of the accepted sends, in the order of
\* their submission
InSubmissionOrder(msgs) ==
    /\ Len(SelectSeq(msgs, IsUser)) = Len(submitted)
    /\ \A i \in 1..Len(submitted) :
         SelectSeq(msgs, IsUser)[i].content = submitted[i].content

\* every accepted send has completed and no clearChat has run
SequentialRun == pc = "idle" /\ completed = sends /\ Len(submitted) = sends

\* C9 as claimed: after k sends, each issued after the previous one
\* completed and with no clearChat, the conversation has exactly 2k
\* messages, alternating user, assistant, in submission order, in either
\* mode and for every backend response or stream content.
C9TwoPerSend ==
    SequentialRun =>
        /\ Len(messages) = 2 * sends
        /\ Alternates(messages)
        /\ InSubmissionOrder(messages)

\* C9, amended: after k such sends the conversation starts with a user
\* message, holds the k user messages in submission order, and has at most
\* two assistant messages in a row; when all k sends were synchronous it
\* has exactly 2k messages, alternating user, assistant, for every backend
\* response.
C9Sequential ==
    SequentialRun =>
        /\ InSubmissionOrder(messages)
        /\ messages # <<>> => IsUser(messages[1])
        /\ \A i \in 1..Len(messages) - 2 :
             IsUser(messages[i]) \/ IsUser(messages[i + 1]) \/ IsUser(messages[i + 2])
        /\ (\A i \in 1..Len(submitted) : ~submitted[i].streaming) =>
             /\ Len(messages) = 2 * sends
             /\ Alternates(messages)

\* two synchronous sends of different texts, one after the other, have
\* completed
C9Witness ==
    /\ SequentialRun
    /\ sends = 2
    /\ \A i \in 1..Len(submitted) : ~submitted[i].streaming
    /\ submitted[1].content # submitted[2].content
    /\ Len(messages) = 4

\* C10: from every reachable state, one where a send is in flight
\* included, clearChat followed by one new send ends with exactly the new
\* user message followed by exactly one assistant message.  Stated for a
\* new send in synchronous mode, which always appends one assistant message.
C10ClearThenSend ==
    (pc = "idle" /\ completed = sends /\ Len(submitted) = 1 /\ ~submitted[1].streaming)
        => /\ Len(messages) = 2
           /\ IsUser(messages[1])
           /\ messages[1].content = submitted[1].content
           /\ messages[2].sender = "assistant"

(***************************************************************************)
(* Properties of the message list.                                         *)
(***************************************************************************)
\* the step belongs to the continuation of the send in flight: it settles
\* a fetch, runs an iteration of the for loop or ends the send
OwnContinuation == pc' # pc \/ lines' # lines \/ completed' # completed

\* C11: between the acceptance of a send and its completion the message
\* list is changed by the continuation of that send only.
C11OnlyTheSend ==
    [][(isLoading /\ messages' # messages) => OwnContinuation]_vars

(***************************************************************************)
(* Properties of the synchronous send.                                     *)
(***************************************************************************)
\* the last message of a list
Last(msgs) == msgs[Len(msgs)]

\* data.model of a JSON body as Message.model holds it
ModelOf(json) ==
    IF Get(json, KeyModel).t = "undefined" THEN None ELSE Some(Get(json, KeyModel).s)

\* C12: a synchronous send appends exactly one assistant message, in the
\* step that completes it and in no other: on success the message carries
\* data.response and data.model of the backend's answer, on every failure
\* it is an error message; while the send is pending no message is added.
C12OnePerSyncSend ==
    [][pc = "syncFetch" =>
        IF pc' = "idle"
        THEN /\ Len(messages') = Len(messages) + 1
             /\ SubSeq(messages', 1, Len(messages)) = messages
             /\ Last(messages').sender = "assistant"
             /\ exit' = "answered" =>
                  /\ fetched' # None
                  /\ Last(messages').content = Get(fetched'[1].backend.json, KeyResponse).s
                  /\ Last(messages').model = ModelOf(fetched'[1].backend.json)
             /\ exit' # "answered" =>
                  /\ StartsWith(Last(messages').content, SyncErrorPrefix)
                  /\ Last(messages').model = None
        ELSE messages' \in {messages, <<>>}]_vars

\* a synchronous send was answered 503 by the backend and has completed
\* with the user's message and one error message
C12Witness ==
    /\ pc = "idle"
    /\ exit = "syncStatus"
    /\ fetched # None
    /\ fetched[1].backend.status = 503
    /\ Len(messages) = 2
    /\ IsUser(messages[1])
    /\ StartsWith(messages[2].content, SyncErrorPrefix)

\* text t holds the text part somewhere
Contains(t, part) ==
    \E i \in 1..(Len(t) - Len(part) + 1) : SubSeq(t, i, i + Len(part) - 1) = part

\* C13: when the backend answers POST /chat with a non-success status, the
\* error message the synchronous send appends is built from the error
\* text the backend reported: it holds that text, so that backends that
\* report different texts give different messages.
C13BackendErrorText ==
    (/\ pc = "idle"
     /\ exit = "syncStatus"
     /\ fetched # None
     /\ messages # <<>>)
        => (fetched[1].backend.kind = "status"
              => Contains(Last(messages).content, fetched[1].backend.text))

\* C14: in every reachable state the messages of the conversation have
\* pairwise distinct ids.
C14UniqueIds ==
    \A i, j \in 1..Len(messages) : i # j => messages[i].id # messages[j].id

(***************************************************************************)
(* Properties of the proxy routes.                                         *)
(***************************************************************************)
\* the backend answer b was given to POST /chat/stream
OfStreamRoute(b) == "body" \in DOMAIN b

\* json is a body of the shape {error, details}
IsEnvelope(json) ==
    /\ json.t = "object"
    /\ Len(json.f) = 2
    /\ json.f[1].k = KeyError /\ json.f[1].v.t = "string"
    /\ json.f[2].k = KeyDetails /\ json.f[2].v.t = "string"

\* the route answered r to the backend's answer b as C15 says
Relays(b, r) ==
    /\ r.status = 500 <=> b.kind # "ok"
    /\ b.kind # "ok" =>
         /\ ~r.ok
         /\ IsEnvelope(r.json)
         /\ b.kind = "status" =>
              /\ Contains(r.json.f[2].v.s, NumberToString(b.status))
              /\ Contains(r.json.f[2].v.s, b.text)
    /\ b.kind = "ok" =>
         /\ r.ok /\ r.status = 200
         /\ IF OfStreamRoute(b) THEN r.body = b.body ELSE r.json = b.json

NotData == {line \in Lines : ~StartsWith(line, DataPrefix)}

\* a chunk of a comment, a data: line without the space, a blank line and
\* one frame
WireMixed ==
    WireLine(TextComment) \o WireLine(TextNoSpace \o JsonHello) \o WireLine(<<>>)
        \o Frame(JsonModel)

\* C16: the iteration over a line that does not begin with "data: " (a
\* blank line, a comment, data: without the space, other text) changes
\* neither the messages nor the accumulated content nor the course of the
\* loop: the loop goes on with the next line, or the next read.
C16IgnoresOtherLines ==
    [][(pc = "lines" /\ Head(lines) \in NotData)
        => /\ messages' = messages
           /\ assistantMessage' = assistantMessage
           /\ lines' = Tail(lines)
           /\ pc' = IF Tail(lines) = <<>> THEN "read" ELSE "lines"
           /\ UNCHANGED <<wire, isLoading, assistantMessageId, endSeen,
                          completed, exit>>]_vars

\* the lines of the mixed chunk were visited and only its frame was
\* published
C16Witness ==
    /\ pc = "read"
    /\ received = WireMixed
    /\ assistantMessage = TextHel
    /\ \E i \in Slots(messages, assistantMessageId) :
         messages[i].content = TextHel /\ messages[i].model = Some(ModelName)

\* the parsed payload is an end frame: type is "end" and there is no content
IsEndFrame(data) ==
    /\ data.ok
    /\ data.v.t = "object"
    /\ Get(data.v, KeyContent).t = "undefined"
    /\ Get(data.v, KeyType) = JsonValue("string", TypeEnd)

\* the lines that hold an end frame
EndLines ==
    {line \in Lines :
        StartsWith(line, DataPrefix) /\ IsEndFrame(JsonParse(Slice(line, 6)))}

\* C17: the iteration over an end frame drops the remaining lines of its
\* chunk unprocessed and publishes nothing, but the send stays in its read
\* loop, not completed; a non-empty content frame of a later chunk is then
\* still published as the content of the turn's message.
C17EndBreaksInnerLoop ==
    [][/\ (pc = "lines" /\ Head(lines) \in EndLines) =>
            /\ lines' = <<>>
            /\ pc' = "read"
            /\ endSeen'
            /\ isLoading'
            /\ UNCHANGED <<messages, assistantMessage, assistantMessageId, wire,
                           completed, exit>>
       /\ (endSeen /\ pc = "lines" /\ ContentField[Head(lines)] \notin {None, Some(<<>>)}) =>
            Shows(ContentField[Head(lines)][1])]_vars

\* after Hel and an end frame in one chunk, Hello of the next chunk was
\* published
C17Witness ==
    /\ pc = "read"
    /\ endSeen
    /\ received = Frame(JsonHel) \o Frame(JsonEnd) \o Frame(JsonHello)
    /\ Len(decoded) = Len(received)
    /\ wire = <<>>
    /\ assistantMessage = TextHello
    /\ \E i \in Slots(messages, assistantMessageId) : messages[i].content = TextHello

\* the bytes of a chunk sequence
RECURSIVE Concat(_)
Concat(chunks) == IF chunks = <<>> THEN <<>> ELSE Head(chunks) \o Concat(Tail(chunks))

\* the accumulated content after the for loop has run over the lines ls of
\* one chunk, acc the content before it
RECURSIVE FoldLines(_, _)
FoldOutcome(o, rest, acc) ==
    IF o.kind = "end" THEN acc
    ELSE FoldLines(rest, IF o.kind = "content" THEN o.content ELSE acc)

FoldLines(ls, acc) ==
    IF ls = <<>> THEN acc ELSE FoldOutcome(LineOutcome(Head(ls)), Tail(ls), acc)

\* the final content of each byte stream when it arrives as a single chunk
AsOneChunk ==
    [bytes \in {Concat(script) : script \in Scripts} |->
        FoldLines(SplitLines(TextDecode(bytes)), <<>>)]

\* C18: the final content of the turn, and with it whether the turn has an
\* assistant message, depends on the bytes of the stream only: when the
\* stream is exhausted the content is the one the same bytes give when
\* they arrive as a single chunk, however they were cut.
C18ChunkingIndependent ==
    (pc = "read" /\ wire = <<>>) => assistantMessage = AsOneChunk[received]

(***************************************************************************)
(* Properties of the busy flag.                                            *)
(***************************************************************************)
\* C19: isLoading is true exactly in the states between the acceptance of a
\* send and its completion, and, every fetch and every reader.read()
\* settling, each accepted send sets isLoading back to false, whichever
\* way it leaves its function.
C19BusyFlag ==
    /\ [](isLoading <=> sends > completed)
    /\ [](isLoading <=> pc # "idle")
    /\ isLoading ~> ~isLoading

\* a streaming send whose response had no body has completed and the flag
\* is down
C19Witness ==
    /\ completed = 1
    /\ sends = 1
    /\ exit = "noBody"
    /\ pc = "idle"
    /\ ~isLoading

(***************************************************************************)
(* Properties of the lifetime of a message.                                *)
(***************************************************************************)
\* the step keeps every message in its place: same id and sender at every
\* index, user messages untouched, new messages only at the end
KeepsMessages ==
    /\ Len(messages') >= Len(messages)
    /\ \A i \in 1..Len(messages) :
         /\ messages'[i].id = messages[i].id
         /\ messages'[i].sender = messages[i].sender
         /\ IsUser(messages[i]) => messages'[i] = messages[i]

\* C20: every step keeps all messages, with their ids, in their order and
\* the user messages unmodified, except a step that is neither an accepted
\* sendMessage nor a step of the send in flight: that step, clearChat,
\* leaves the empty list.  No step removes some messages and keeps others.
C20OnlyFullClear ==
    [][\/ KeepsMessages
       \/ /\ messages' = <<>>
          /\ sends' = sends
          /\ ~OwnContinuation]_vars

\* a completed conversation of two messages was cleared
C20Witness ==
    /\ pc = "idle"
    /\ completed = 1
    /\ exit = "answered"
    /\ messages = <<>>
    /\ submitted = <<>>

====
